---------------------------- MODULE Spec2Model ----------------------------
(***************************************************************************)
(* Poly-encoder (parlai/agents/transformer/polyencoder.py).                *)
(*                                                                         *)
(* The model covers PolyEncoderModule (construction, forward, encode,      *)
(* score, attend), PolyBasicAttention, and the parts of PolyencoderAgent   *)
(* that drive it (encode_candidates, _make_candidate_encs,                 *)
(* score_candidates, load_state_dict).                                     *)
(*                                                                         *)
(* Tensors are finite sequences: a 2-D tensor is a sequence of rows, a     *)
(* 3-D tensor a sequence of 2-D tensors.  Embedding vectors are sequences  *)
(* of Dim integers.  None is the Python None.                              *)
(***************************************************************************)
EXTENDS Integers, Sequences, FiniteSets, TLC

\* ------------------------------------------------------------------ bounds
MaxBsz == 2
MaxLen == 3
MaxCodes == 2
MaxCands == 2
MaxCandLen == 2
Dim == 2
MaxImgLayers == 2

\* -------------------------------------------------------- program constants
NULL_IDX == 0

\* Optional values: None is the empty tuple, a present value x is <<x>>.
None == <<>>
Some(x) == <<x>>
IsNone(o) == o = <<>>
Val(o) == o[1]

\* an entry of the image list that is None (no image for that example)
NoImage == 0

PolyencoderTypes == {"codes", "n_first"}
SupportedAttention == {"basic", "sqrt", "multihead"}
\* 'cosine' stands for any value outside the three supported kinds
AttentionKinds == SupportedAttention \cup {"cosine"}
CombinationModes == {"add", "postpend", "prepend"}

VARIABLES model, last

vars == <<model, last>>

\* ----------------------------------------------------------- tensor basics
ZeroVec == [k \in 1..Dim |-> 0]

\* tensor.new_zeros(bsz, n, dim)
new_zeros3(bsz, n) == [b \in 1..bsz |-> [j \in 1..n |-> ZeroVec]]

\* padding flagged as valid
new_zeros2_ones(bsz, n) == [b \in 1..bsz |-> [j \in 1..n |-> 1]]

\* tensor.new_zeros(bsz, n)
new_zeros2(bsz, n) == [b \in 1..bsz |-> [j \in 1..n |-> 0]]

\* tensor.new_ones(bsz, n).byte()
new_ones2(bsz, n) == [b \in 1..bsz |-> [j \in 1..n |-> 1]]

\* torch.cat([x, y], dim=1) of two tensors with the same batch size
cat1(x, y) == [b \in 1..Len(x) |-> x[b] \o y[b]]

\* the last n positions instead of the first n
slice1_last(t, n) ==
    [b \in 1..Len(t) |-> SubSeq(t[b], Len(t[b]) - n + 1, Len(t[b]))]

\* t[:, 0:n] (and t[:, 0:n, :])
slice1(t, n) == [b \in 1..Len(t) |-> SubSeq(t[b], 1, n)]

\* t.size(1) of a tensor with at least one row
size1(t) == Len(t[1])

\* the elements of a 2-D tensor in storage (row-major) order
Storage2(t) ==
    LET c == size1(t)
    IN  [i \in 1..(Len(t) * c) |-> t[((i - 1) \div c) + 1][((i - 1) % c) + 1]]

\* the elements of a 3-D tensor in storage (row-major) order
Storage3(t) ==
    LET n == Len(t[1])
        c == Len(t[1][1])
    IN  [i \in 1..(Len(t) * n * c) |->
            t[((i - 1) \div (n * c)) + 1]
             [(((i - 1) \div c) % n) + 1]
             [((i - 1) % c) + 1]]

\* t.view(rows, -1) on storage s
view2(s, rows) ==
    LET c == Len(s) \div rows
    IN  [a \in 1..rows |-> [j \in 1..c |-> s[(a - 1) * c + j]]]

\* wrong stride: rows laid out column-major
view3_transposed(s, bsz, n) ==
    LET c == Len(s) \div (bsz * n)
    IN  [b \in 1..bsz |-> [i \in 1..n |-> [k \in 1..c |->
            s[((i - 1) * bsz + (b - 1)) * c + k]]]]

\* t.view(bsz, n, -1) on storage s
view3(s, bsz, n) ==
    LET c == Len(s) \div (bsz * n)
    IN  [b \in 1..bsz |-> [i \in 1..n |-> [k \in 1..c |->
            s[((b - 1) * n + (i - 1)) * c + k]]]]

\* float tensors carry their number of dimensions explicitly
FT(ndim, data) == [ndim |-> ndim, data |-> data]

\* t.shape of a float tensor
Shape(t) ==
    IF t.ndim = 3 THEN <<Len(t.data), Len(t.data[1]), Dim>>
    ELSE <<Len(t.data), Dim>>

\* shape of a 2-D mask or token tensor
Shape2(m) == <<Len(m), Len(m[1])>>

\* ------------------------------------------------- external collaborators
\* TransformerEncoder with reduction_type=None: one vector per position and
\* the validity mask (1 = token, 0 = padding).
TokenVec(tok, pos) == [k \in 1..Dim |-> 10 * tok + 3 * pos + k]

TransformerEncoder_forward(tokens) ==
    [out  |-> [b \in 1..Len(tokens) |-> [j \in 1..Len(tokens[b]) |->
                  TokenVec(tokens[b][j], j)]],
     mask |-> [b \in 1..Len(tokens) |-> [j \in 1..Len(tokens[b]) |->
                  IF tokens[b][j] # NULL_IDX THEN 1 ELSE 0]]]

\* TransformerEncoder with a reduction: one vector per input row.
RECURSIVE RowSum(_, _, _)
RowSum(row, k, j) ==
    IF j = 0 THEN 0 ELSE row[j] * (j + k) + RowSum(row, k, j - 1)

CandVec(row) == [k \in 1..Dim |-> RowSum(row, k, Len(row))]

encoder_cand(tokens2d) == [r \in 1..Len(tokens2d) |-> CandVec(tokens2d[r])]

\* image feed-forward network applied to one image feature vector
ImageVec(img) == [k \in 1..Dim |-> 50 + img + k]

\* ContextWithImageEncoder.encode_images: None when no example has an image,
\* otherwise one pseudo-token per example with its validity flag.
CWI_encode_images(images) ==
    IF \A i \in 1..Len(images) : images[i] = NoImage
    THEN None
    ELSE Some([enc  |-> [i \in 1..Len(images) |->
                      <<IF images[i] = NoImage THEN ZeroVec ELSE ImageVec(images[i])>>],
               mask |-> [i \in 1..Len(images) |->
                      <<IF images[i] = NoImage THEN 0 ELSE 1>>]])

\* ContextWithImageEncoder.forward with src_tokens given
ContextWithImageEncoder_forward(mode, src_tokens, image_features) ==
    LET ctx == TransformerEncoder_forward(src_tokens)
        enc == IF IsNone(image_features) THEN None
               ELSE CWI_encode_images(Val(image_features))
        img == Val(enc)
    IN  IF IsNone(enc) THEN ctx
        ELSE CASE mode = "add" ->
                    [out  |-> [b \in 1..Len(ctx.out) |-> [j \in 1..Len(ctx.out[b]) |->
                                 [k \in 1..Dim |-> ctx.out[b][j][k] + img.enc[b][1][k]]]],
                     mask |-> ctx.mask]
               [] mode = "postpend" ->
                    [out |-> cat1(ctx.out, img.enc), mask |-> cat1(ctx.mask, img.mask)]
               [] mode = "prepend" ->
                    [out |-> cat1(img.enc, ctx.out), mask |-> cat1(img.mask, ctx.mask)]

\* Attention weights are real numbers and are not represented: an output row
\* stands for "a combination of the value rows whose key is valid" and is
\* recorded as the sum of those rows.
RECURSIVE ValidSum(_, _, _, _)
ValidSum(values, mask, k, j) ==
    IF j = 0 THEN 0
    ELSE (IF mask[j] # 0 THEN values[j][k] ELSE 0) + ValidSum(values, mask, k, j - 1)

AttnRow(values, mask) == [k \in 1..Dim |-> ValidSum(values, mask, k, Len(values))]

\* BasicAttention constructor: the attention kinds of the basic realisation
BasicAttention_accepts(attn) == attn \in {"basic", "sqrt"}

\* BasicAttention.forward(xs, ys, mask_ys, values) with dim=2,
\* get_weights=False: batch x n_q x dim, then squeeze(dim - 1), which drops
\* the n_q axis when it has size 1.
BasicAttention_forward(xs, ys, mask_ys, values) ==
    LET bsz == Len(xs.data)
        n_q == Len(xs.data[1])
        lhs_emb == [b \in 1..bsz |-> [q \in 1..n_q |->
                       AttnRow(values.data[b], mask_ys[b])]]
    IN  IF n_q = 1
        THEN FT(2, [b \in 1..bsz |-> lhs_emb[b][1]])
        ELSE FT(3, lhs_emb)

\* MultiHeadAttention.forward(query, key, value, mask): batch x n_q x dim
MultiHeadAttention_forward(queries, keys, values, mask) ==
    FT(3, [b \in 1..Len(queries.data) |-> [q \in 1..Len(queries.data[1]) |->
              AttnRow(values.data[b], mask[b])]])

\* ------------------------------------------------------ PolyBasicAttention
\* dropping the restoration of the squeezed axis
PolyBasicAttention_forward_norestore(layer, xs, ys, mask_ys, values) ==
    BasicAttention_forward(xs, ys, mask_ys, values)

PolyBasicAttention_forward(layer, xs, ys, mask_ys, values) ==
    LET lhs_emb == BasicAttention_forward(xs, ys, mask_ys, values)
    IN  IF layer.poly_type = "codes" /\ layer.n_codes = 1 /\ lhs_emb.ndim = 2
        THEN FT(3, [b \in 1..Len(lhs_emb.data) |-> <<lhs_emb.data[b]>>])
        ELSE lhs_emb

\* -------------------------------------------------------- PolyEncoderModule
NoLayer == [cls |-> "missing", poly_type |-> "", n_codes |-> 0, attn |-> ""]

PolyBasicAttention(poly_type, n_codes, attn) ==
    [cls |-> "PolyBasicAttention", poly_type |-> poly_type,
     n_codes |-> n_codes, attn |-> attn]

MultiHeadAttention ==
    [cls |-> "MultiHeadAttention", poly_type |-> "", n_codes |-> 0,
     attn |-> "multihead"]

\* torch.nn.init.uniform_(torch.empty(n_codes, embed_dim)): a fixed stand-in
\* for the freshly initialised code bank
CodesInit(n) == [c \in 1..n |-> [k \in 1..Dim |-> c]]

Unbuilt ==
    [status |-> "none", type |-> "", n_codes |-> 0,
     attention_type |-> "", codes_attention_type |-> "",
     use_image_features |-> FALSE, image_combination_mode |-> "",
     codes |-> None, code_attention |-> NoLayer, attention |-> NoLayer]

\* the options the module is built from: every pair of attention kinds
\* without image features, the default kinds with image features
Opts ==
    [polyencoder_type : PolyencoderTypes,
     poly_n_codes : 1..MaxCodes,
     poly_attention_type : AttentionKinds,
     codes_attention_type : AttentionKinds,
     polyencoder_image_encoder_num_layers : {0},
     polyencoder_image_combination_mode : {"postpend"}]
    \cup
    [polyencoder_type : PolyencoderTypes,
     poly_n_codes : 1..MaxCodes,
     poly_attention_type : {"basic"},
     codes_attention_type : {"basic"},
     polyencoder_image_encoder_num_layers : {1},
     polyencoder_image_combination_mode : CombinationModes]

\* the if/elif/elif chain that sets self.code_attention (no else branch)
code_attention_of(opt) ==
    IF opt.codes_attention_type = "multihead" THEN MultiHeadAttention
    ELSE IF opt.codes_attention_type = "sqrt"
    THEN PolyBasicAttention(opt.polyencoder_type, opt.poly_n_codes, "sqrt")
    ELSE IF opt.codes_attention_type = "basic"
    THEN PolyBasicAttention(opt.polyencoder_type, opt.poly_n_codes, "basic")
    ELSE NoLayer

\* PolyEncoderModule.__init__: the module built from opt; status "error"
\* when a constructor it calls raises
PolyEncoderModule_init(opt) ==
    LET isCodes == opt.polyencoder_type = "codes"
        code_attention == IF isCodes THEN code_attention_of(opt) ELSE NoLayer
        raises ==
            /\ opt.poly_attention_type # "multihead"
            /\ ~BasicAttention_accepts(opt.poly_attention_type)
    IN  [status |-> IF raises THEN "error" ELSE "ok",
         type |-> opt.polyencoder_type,
         n_codes |-> opt.poly_n_codes,
         attention_type |-> opt.poly_attention_type,
         codes_attention_type |-> opt.codes_attention_type,
         use_image_features |-> opt.polyencoder_image_encoder_num_layers > 0,
         image_combination_mode |-> opt.polyencoder_image_combination_mode,
         codes |-> IF isCodes THEN Some(CodesInit(opt.poly_n_codes)) ELSE None,
         code_attention |-> code_attention,
         attention |-> IF opt.poly_attention_type = "multihead"
                       THEN MultiHeadAttention
                       ELSE PolyBasicAttention(opt.polyencoder_type,
                                opt.poly_n_codes, opt.poly_attention_type)]

Error(e) == [kind |-> "error", error |-> e]

\* PolyEncoderModule.attend
attend(attention_layer, queries, keys, values, mask) ==
    IF attention_layer.cls = "PolyBasicAttention"
    THEN PolyBasicAttention_forward(attention_layer, queries, keys, mask, values)
    ELSE MultiHeadAttention_forward(queries, keys, values, mask)

\* encode, candidate part: flatten to (bsz * num_cands) x seqlen, encode each
\* row, reshape to bsz x num_cands x dim
encode_cands(cand_tokens) ==
    LET bsz == Len(cand_tokens)
        num_cands == Len(cand_tokens[1])
        flat == view2(Storage3(cand_tokens), bsz * num_cands)
        cand_embed == encoder_cand(flat)
    IN  FT(3, view3(Storage2(cand_embed), bsz, num_cands))

\* the reduced mask is taken from the encoder's mask
encode_codes_inputmask(m, bsz, ctxt_out, ctxt_mask) ==
    [rep  |-> attend(m.code_attention,
                     FT(3, [b \in 1..bsz |-> Val(m.codes)]),
                     FT(3, ctxt_out), FT(3, ctxt_out), ctxt_mask),
     mask |-> [b \in 1..bsz |-> [j \in 1..m.n_codes |->
                  IF j <= Len(ctxt_mask[b]) THEN ctxt_mask[b][j] ELSE 0]]]

\* encode, type 'codes': attend the code bank over the encoded context
encode_codes(m, bsz, ctxt_out, ctxt_mask) ==
    [rep  |-> attend(m.code_attention,
                     FT(3, [b \in 1..bsz |-> Val(m.codes)]),
                     FT(3, ctxt_out), FT(3, ctxt_out), ctxt_mask),
     mask |-> new_ones2(bsz, m.n_codes)]

\* the truncation keeps one position too few
encode_n_first_short(m, bsz, ctxt_out, ctxt_mask) ==
    IF size1(ctxt_out) < m.n_codes
    THEN LET difference == m.n_codes - size1(ctxt_out)
         IN  [rep  |-> FT(3, cat1(ctxt_out, new_zeros3(bsz, difference))),
              mask |-> cat1(ctxt_mask, new_zeros2(bsz, difference))]
    ELSE [rep  |-> FT(3, slice1(ctxt_out, m.n_codes - 1)),
          mask |-> slice1(ctxt_mask, m.n_codes - 1)]

\* encode, type 'n_first': pad with zeros or keep the first n_codes positions
encode_n_first(m, bsz, ctxt_out, ctxt_mask) ==
    IF size1(ctxt_out) < m.n_codes
    THEN LET difference == m.n_codes - size1(ctxt_out)
             extra_rep == new_zeros3(bsz, difference)
             extra_mask == new_zeros2(bsz, difference)
         IN  [rep  |-> FT(3, cat1(ctxt_out, extra_rep)),
              mask |-> cat1(ctxt_mask, extra_mask)]
    ELSE [rep  |-> FT(3, slice1(ctxt_out, m.n_codes)),
          mask |-> slice1(ctxt_mask, m.n_codes)]

\* the call of self.encoder_ctxt in encode: use_image_features is a bool,
\* never None, so image_features is passed to either encoder class
encoder_ctxt(m, ctxt_tokens, ctxt_image) ==
    IF m.use_image_features
    THEN [image_features_passed |-> TRUE,
          res |-> ContextWithImageEncoder_forward(m.image_combination_mode,
                                                  ctxt_tokens, ctxt_image)]
    ELSE [image_features_passed |-> TRUE,
          res |-> TransformerEncoder_forward(ctxt_tokens)]

\* PolyEncoderModule.encode
encode(m, ctxt_tokens, ctxt_image, cand_tokens) ==
    LET cand_embed == IF IsNone(cand_tokens) THEN None
                      ELSE Some(encode_cands(Val(cand_tokens)))
        tokens == Val(ctxt_tokens)
        bsz == Len(tokens)
        enc == encoder_ctxt(m, tokens, ctxt_image)
        red == IF m.type = "codes"
               THEN encode_codes(m, bsz, enc.res.out, enc.res.mask)
               ELSE encode_n_first(m, bsz, enc.res.out, enc.res.mask)
    IN  IF IsNone(ctxt_tokens)
        THEN [kind |-> "encoded", ctxt_rep |-> None, ctxt_rep_mask |-> None,
              cand_embed |-> cand_embed, image_features_passed |-> FALSE]
        ELSE IF ~IsNone(ctxt_image) /\ Len(Val(ctxt_image)) # bsz
        THEN Error("AssertionError")
        ELSE IF m.type = "codes" /\ m.code_attention.cls = "missing"
        THEN Error("AttributeError")
        ELSE [kind |-> "encoded", ctxt_rep |-> Some(red.rep),
              ctxt_rep_mask |-> Some(red.mask), cand_embed |-> cand_embed,
              image_features_passed |-> enc.image_features_passed]

\* torch.sum(ctxt_final_rep * cand_embed, 2), with broadcasting when
\* ctxt_final_rep has lost its middle axis
mul_sum(ctxt_final_rep, cand_embed) ==
    LET DotK(x, y) == LET RECURSIVE D(_)
                          D(k) == IF k = 0 THEN 0 ELSE x[k] * y[k] + D(k - 1)
                      IN  D(Dim)
    IN  IF ctxt_final_rep.ndim = 3
        THEN [b \in 1..Len(cand_embed.data) |->
                [c \in 1..Len(cand_embed.data[b]) |->
                    DotK(ctxt_final_rep.data[b][c], cand_embed.data[b][c])]]
        ELSE [b \in 1..Len(cand_embed.data) |->
                [b2 \in 1..Len(ctxt_final_rep.data) |->
                    DotK(ctxt_final_rep.data[b2], cand_embed.data[b][1])]]

\* PolyEncoderModule.score
score(m, ctxt_rep, ctxt_rep_mask, cand_embed) ==
    LET ctxt_final_rep == attend(m.attention, cand_embed, ctxt_rep, ctxt_rep,
                                 ctxt_rep_mask)
    IN  [kind |-> "scores", ctxt_final_rep |-> ctxt_final_rep,
         scores |-> mul_sum(ctxt_final_rep, cand_embed)]

\* forward dispatches to encode even when it was given no input
forward_noguard(m, ctxt_tokens, ctxt_image, cand_tokens, ctxt_rep, ctxt_rep_mask, cand_rep) ==
    IF ~IsNone(ctxt_rep) /\ ~IsNone(ctxt_rep_mask) /\ ~IsNone(cand_rep)
    THEN score(m, Val(ctxt_rep), Val(ctxt_rep_mask), Val(cand_rep))
    ELSE encode(m, ctxt_tokens, ctxt_image, cand_tokens)

\* PolyEncoderModule.forward
forward(m, ctxt_tokens, ctxt_image, cand_tokens, ctxt_rep, ctxt_rep_mask, cand_rep) ==
    IF ~IsNone(ctxt_tokens) \/ ~IsNone(ctxt_image) \/ ~IsNone(cand_tokens)
    THEN encode(m, ctxt_tokens, ctxt_image, cand_tokens)
    ELSE IF ~IsNone(ctxt_rep) /\ ~IsNone(ctxt_rep_mask) /\ ~IsNone(cand_rep)
    THEN score(m, Val(ctxt_rep), Val(ctxt_rep_mask), Val(cand_rep))
    ELSE Error("Unsupported operation")

\* --------------------------------------------------------- PolyencoderAgent
\* t.unsqueeze(1) of a 2-D token tensor
unsqueeze1(t) == [r \in 1..Len(t) |-> <<t[r]>>]

\* t.transpose(0, 1).contiguous() of a 3-D float tensor
transpose01(t) ==
    FT(3, [a \in 1..Len(t.data[1]) |-> [b \in 1..Len(t.data) |-> t.data[b][a]]])

\* t.expand(bsz, n, -1) of a 3-D float tensor whose first axis has size 1
expand(t, bsz, n) == FT(3, [b \in 1..bsz |-> [i \in 1..n |-> t.data[1][i]]])

\* PolyencoderAgent.encode_candidates
encode_candidates(m, padded_cands) ==
    forward(m, None, None, Some(unsqueeze1(padded_cands)), None, None, None)

\* TorchRankerAgent._make_candidate_encs: the encodings of the candidate
\* pool, num_cands x 1 x dim
TRA_make_candidate_encs(m, vecs) == Val(encode_candidates(m, vecs).cand_embed)

\* PolyencoderAgent._make_candidate_encs
make_candidate_encs(m, vecs) == transpose01(TRA_make_candidate_encs(m, vecs))

\* the cached representation is used as it is for every batch size
cand_rep_of_cached_noexpand(bsz, cand_encs) == cand_encs

\* score_candidates, cand_encs given
cand_rep_of_cached(bsz, cand_encs) ==
    IF bsz = 1 THEN cand_encs
    ELSE expand(cand_encs, bsz, size1(cand_encs.data))

\* score_candidates, no cand_encs: cand_vecs is 3-D (ndim = 3) or 2-D
cand_rep_of_vecs(m, bsz, ndim, cand_vecs) ==
    IF ndim = 3
    THEN Val(forward(m, None, None, Some(cand_vecs), None, None, None).cand_embed)
    ELSE LET cand_rep == Val(forward(m, None, None, Some(unsqueeze1(cand_vecs)),
                                     None, None, None).cand_embed)
             num_cands == Len(cand_rep.data)
         IN  transpose01(FT(3, [c \in 1..num_cands |-> [b \in 1..bsz |->
                                    cand_rep.data[c][1]]]))

\* PolyencoderAgent.score_candidates; cand_vecs is <<ndim, tensor>>
score_candidates(m, text_vec, image, cand_vecs, cand_encs) ==
    LET bsz == Len(text_vec)
        ctxt == forward(m, Some(text_vec), image, None, None, None, None)
        cand_rep == IF ~IsNone(cand_encs)
                    THEN cand_rep_of_cached(bsz, Val(cand_encs))
                    ELSE cand_rep_of_vecs(m, bsz, cand_vecs[1], cand_vecs[2])
        res == forward(m, None, None, None, ctxt.ctxt_rep, ctxt.ctxt_rep_mask,
                       Some(cand_rep))
    IN  IF ctxt.kind = "error" THEN [res |-> ctxt, cand_rep |-> None]
        ELSE [res |-> res, cand_rep |-> Some(cand_rep)]

\* the state is passed on as given
load_state_dict_arg_nofill(m, state_dict) == state_dict

\* PolyencoderAgent.load_state_dict: the state handed to super()
load_state_dict_arg(m, state_dict) ==
    IF m.type = "codes" /\ "codes" \notin DOMAIN state_dict
    THEN [k \in DOMAIN state_dict \cup {"codes"} |->
            IF k = "codes" THEN Val(m.codes) ELSE state_dict[k]]
    ELSE state_dict

\* TorchRankerAgent.load_state_dict: the module takes the code bank of the
\* state it is given
TRA_load_state_dict(m, state_dict) ==
    IF m.type = "codes" /\ "codes" \in DOMAIN state_dict
    THEN [m EXCEPT !.codes = Some(state_dict["codes"])]
    ELSE m

\* ------------------------------------------------------------------ inputs
\* a padded row: valid tokens first, then NULL_IDX
PaddedRows(L) == {[j \in 1..L |-> IF j <= v THEN 1 ELSE NULL_IDX] : v \in 1..L}

FullRow(L) == [j \in 1..L |-> 1]

\* a batch padded to the length of its longest row
PaddedBatches(bsz, L) ==
    {t \in [1..bsz -> PaddedRows(L)] : \E b \in 1..bsz : t[b] = FullRow(L)}

CtxTokens ==
    UNION {PaddedBatches(bsz, L) : <<bsz, L>> \in (1..MaxBsz) \X (1..MaxLen)}

CtxTokensFull ==
    {[b \in 1..bsz |-> FullRow(L)] : <<bsz, L>> \in (1..MaxBsz) \X (1..MaxLen)}

\* image lists given with a batch: one entry per example, some of them
\* None, or a list that is one entry too long
ImageListsFor(bsz) ==
    [1..bsz -> {NoImage, 1}] \cup {[i \in 1..(bsz + 1) |-> 1]}

ImageLists == UNION {[1..n -> {NoImage, 1}] : n \in 1..MaxBsz}

\* candidate pools, num_cands x seqlen
CandVecs2 ==
    UNION {PaddedBatches(n, L) : <<n, L>> \in (1..MaxCands) \X (1..MaxCandLen)}

\* candidate batches of a given batch size, bsz x num_cands x seqlen
CandVecs3(bsz) ==
    UNION {{t \in [1..bsz -> [1..n -> PaddedRows(L)]] :
               \E b \in 1..bsz : \E i \in 1..n : t[b][i] = FullRow(L)} :
           <<n, L>> \in (1..MaxCands) \X (1..MaxCandLen)}

CandTokens == UNION {CandVecs3(bsz) : bsz \in 1..MaxBsz}

\* candidate batches of single-token candidates
CandTokensShort(bsz) ==
    {[b \in 1..bsz |-> [i \in 1..n |-> FullRow(1)]] : n \in 1..MaxCands}

SampleRep(bsz, n) == FT(3, [b \in 1..bsz |-> [j \in 1..n |-> TokenVec(1, j)]])

Opt(S) == {None} \cup {Some(x) : x \in S}

Call(t, i, c, r, rm, cr) ==
    [ctxt_tokens |-> t, ctxt_image |-> i, cand_tokens |-> c,
     ctxt_rep |-> r, ctxt_rep_mask |-> rm, cand_rep |-> cr]

\* the calls of the module made by Forward
ForwardCalls(m) ==
    {Call(Some(t), i, None, None, None, None) :
        <<t, i>> \in {<<t, i>> \in CtxTokens \X Opt(UNION {ImageListsFor(n) : n \in 1..MaxBsz}) :
                         IsNone(i) \/ Val(i) \in ImageListsFor(Len(t))}}
    \cup
    {Call(None, None, c, None, None, None) : c \in Opt(CandTokens)}
    \cup
    {Call(None, Some(i), None, None, None, None) : i \in ImageLists}
    \cup
    {Call(Some(t), None, Some(c), None, None, None) :
        <<t, c>> \in {<<t, c>> \in CtxTokensFull \X UNION {CandTokensShort(n) : n \in 1..MaxBsz} :
                         Len(t) = Len(c)}}
    \cup
    UNION {{Call(None, None, None, r, rm, cr) :
               <<r, rm, cr>> \in Opt({SampleRep(bsz, m.n_codes)})
                                 \X Opt({new_ones2(bsz, m.n_codes)})
                                 \X Opt({SampleRep(bsz, n) : n \in 1..MaxCands})} :
           bsz \in 1..MaxBsz}

WeightsOnly == [k \in {"weights"} |-> <<1>>]

\* the code bank of a saved checkpoint
CkptCodes(n) == [c \in 1..n |-> [k \in 1..Dim |-> c + 5]]

StateDicts(m) ==
    {WeightsOnly,
     [k \in {"weights", "codes"} |->
         IF k = "codes" THEN CkptCodes(m.n_codes) ELSE <<1>>]}

\* batch.image: one image per example when the agent was set up with image
\* features, None otherwise
BatchImage(m, text_vec) ==
    IF m.use_image_features THEN Some([b \in 1..Len(text_vec) |-> 1]) ELSE None

\* ----------------------------------------------------------------- actions
Idle == [op |-> "idle"]

Init ==
    /\ model = Unbuilt
    /\ last = Idle

\* PolyencoderAgent.build_model
Construct ==
    /\ model.status = "none"
    /\ \E opt \in Opts :
          /\ model' = PolyEncoderModule_init(opt)
          /\ last' = [op |-> "init", opt |-> opt]

\* a call of the module
Forward ==
    /\ model.status = "ok"
    /\ last.op = "idle"
    /\ \E c \in ForwardCalls(model) :
          last' = [op |-> "forward", args |-> c,
                   res |-> forward(model, c.ctxt_tokens, c.ctxt_image,
                                   c.cand_tokens, c.ctxt_rep, c.ctxt_rep_mask,
                                   c.cand_rep)]
    /\ UNCHANGED model

\* the agent encodes its fixed candidate pool
MakeCandidateEncs ==
    /\ model.status = "ok"
    /\ last.op = "idle"
    /\ \E vecs \in CandVecs2 :
          last' = [op |-> "make_candidate_encs", vecs |-> vecs,
                   cand_encs |-> make_candidate_encs(model, vecs)]
    /\ UNCHANGED model

\* score_candidates with the cached encodings of the pool
ScoreCandidatesCached ==
    /\ model.status = "ok"
    /\ last.op = "make_candidate_encs"
    /\ \E text_vec \in CtxTokensFull :
          LET image == BatchImage(model, text_vec)
              r == score_candidates(model, text_vec, image, <<2, last.vecs>>,
                                    Some(last.cand_encs))
          IN  last' = [op |-> "score_candidates", text_vec |-> text_vec,
                       image |-> image, cand_vecs |-> <<2, last.vecs>>,
                       cand_encs |-> Some(last.cand_encs),
                       cand_rep |-> r.cand_rep, res |-> r.res]
    /\ UNCHANGED model

\* score_candidates on candidate vectors
ScoreCandidates ==
    /\ model.status = "ok"
    /\ last.op = "idle"
    /\ \E text_vec \in CtxTokensFull :
        \E cand_vecs \in ({3} \X CandTokensShort(Len(text_vec))) \cup ({2} \X CandVecs2) :
          LET image == BatchImage(model, text_vec)
              r == score_candidates(model, text_vec, image, cand_vecs, None)
          IN  last' = [op |-> "score_candidates", text_vec |-> text_vec,
                       image |-> image, cand_vecs |-> cand_vecs,
                       cand_encs |-> None,
                       cand_rep |-> r.cand_rep, res |-> r.res]
    /\ UNCHANGED model

\* PolyencoderAgent.load_state_dict
LoadStateDict ==
    /\ model.status = "ok"
    /\ last.op = "idle"
    /\ \E state_dict \in StateDicts(model) :
          LET arg == load_state_dict_arg(model, state_dict)
          IN  /\ last' = [op |-> "load_state_dict", given |-> state_dict,
                          passed |-> arg, codes_before |-> model.codes]
              /\ model' = TRA_load_state_dict(model, arg)

\* the caller takes the result
Release ==
    /\ last.op # "idle"
    /\ last' = Idle
    /\ UNCHANGED model

Next ==
    \/ Construct
    \/ Forward
    \/ MakeCandidateEncs
    \/ ScoreCandidatesCached
    \/ ScoreCandidates
    \/ LoadStateDict
    \/ Release

Spec == Init /\ [][Next]_vars

\* ------------------------------------------------------------------ claims
\* the last operation was a call of the module with context tokens
CtxCall == last.op = "forward" /\ ~IsNone(last.args.ctxt_tokens)

\* ... that returned from encode
CtxEncoded == CtxCall /\ last.res.kind = "encoded"

\* what the context encoder returned in the last call
LastEnc ==
    encoder_ctxt(model, Val(last.args.ctxt_tokens), last.args.ctxt_image).res

LastRep == Val(last.res.ctxt_rep)
LastMask == Val(last.res.ctxt_rep_mask)
LastBsz == Len(Val(last.args.ctxt_tokens))

\* C1: encode with context tokens returns exactly n_codes vectors per
\* example and a batch x n_codes mask, in both modes, for every context
\* length and every n_codes; with a supported code attention and an image
\* list of the batch's length the call does return.
C1_NCodesVectors ==
    CtxCall =>
      /\ last.res.kind = "encoded" =>
            /\ LastRep.ndim = 3
            /\ Len(LastRep.data) = LastBsz
            /\ Len(LastMask) = LastBsz
            /\ \A b \in 1..LastBsz :
                  /\ Len(LastRep.data[b]) = model.n_codes
                  /\ Len(LastMask[b]) = model.n_codes
                  /\ \A j \in 1..model.n_codes : Len(LastRep.data[b][j]) = Dim
      /\ ( /\ model.type = "codes" => model.codes_attention_type \in SupportedAttention
           /\ IsNone(last.args.ctxt_image)
                 \/ Len(Val(last.args.ctxt_image)) = LastBsz )
            => last.res.kind = "encoded"

C1_Witness ==
    /\ CtxEncoded
    /\ model.type = "codes"
    /\ model.n_codes = 1
    /\ size1(Val(last.args.ctxt_tokens)) = MaxLen
    /\ Shape(LastRep) = <<MaxBsz, 1, Dim>>

\* C2: in 'n_first' mode with encoded length >= n_codes the result is the
\* first n_codes positions of the encoder's output and mask, in order; for
\* length = n_codes it is the encoder's output and mask themselves.
C2_NFirstTruncates ==
    (CtxEncoded /\ model.type = "n_first" /\ size1(LastEnc.out) >= model.n_codes) =>
      /\ \A b \in 1..LastBsz :
            /\ Len(LastRep.data[b]) = model.n_codes
            /\ Len(LastMask[b]) = model.n_codes
            /\ \A j \in 1..model.n_codes :
                  /\ LastRep.data[b][j] = LastEnc.out[b][j]
                  /\ LastMask[b][j] = LastEnc.mask[b][j]
      /\ size1(LastEnc.out) = model.n_codes =>
            /\ LastRep.data = LastEnc.out
            /\ LastMask = LastEnc.mask

C2_Witness ==
    /\ CtxEncoded
    /\ model.type = "n_first"
    /\ size1(LastEnc.out) > model.n_codes
    /\ model.n_codes > 1
    /\ \E b \in 1..LastBsz : LastMask[b][model.n_codes] = 0

\* C3: in 'n_first' mode with encoded length L < n_codes the result keeps
\* the L encoder rows and mask entries and appends n_codes - L positions
\* with mask 0 and an all-zero row.
C3_NFirstPads ==
    (CtxEncoded /\ model.type = "n_first" /\ size1(LastEnc.out) < model.n_codes) =>
      LET L == size1(LastEnc.out)
      IN  \A b \in 1..LastBsz :
            /\ Len(LastRep.data[b]) = model.n_codes
            /\ Len(LastMask[b]) = model.n_codes
            /\ \A j \in 1..L :
                  /\ LastRep.data[b][j] = LastEnc.out[b][j]
                  /\ LastMask[b][j] = LastEnc.mask[b][j]
            /\ \A j \in (L + 1)..model.n_codes :
                  /\ LastMask[b][j] = 0
                  /\ \A k \in 1..Dim : LastRep.data[b][j][k] = 0

C3_Witness ==
    /\ CtxEncoded
    /\ model.type = "n_first"
    /\ size1(LastEnc.out) < model.n_codes
    /\ LastBsz = MaxBsz
    /\ LastMask[1][1] = 1
    /\ LastMask[1][model.n_codes] = 0

\* C4: in 'codes' mode the reduced mask is all ones, batch x n_codes,
\* whatever the encoder's mask holds.
C4_CodesMaskAllOnes ==
    (CtxEncoded /\ model.type = "codes") =>
      /\ Len(LastMask) = LastBsz
      /\ \A b \in 1..LastBsz :
            /\ Len(LastMask[b]) = model.n_codes
            /\ \A j \in 1..model.n_codes : LastMask[b][j] = 1

C4_Witness ==
    /\ CtxEncoded
    /\ model.type = "codes"
    /\ model.n_codes = MaxCodes
    /\ size1(LastEnc.mask) >= 2
    /\ \E b \in 1..LastBsz : LastEnc.mask[b][1] = 1 /\ LastEnc.mask[b][2] = 0

\* the last operation ran the final-scorer attention
Scored ==
    /\ last.op \in {"forward", "score_candidates"}
    /\ last.res.kind = "scores"

\* the candidate representation (queries) of the last scoring
ScoredCands ==
    IF last.op = "forward" THEN Val(last.args.cand_rep) ELSE Val(last.cand_rep)

\* C5: PolyBasicAttention with n_q = n_k = n_codes = 1 returns a
\* (batch, 1, dim) tensor, for every reduction mode.
C5_Always3D ==
    ( /\ Scored
      /\ model.attention.cls = "PolyBasicAttention"
      /\ model.n_codes = 1
      /\ size1(ScoredCands.data) = 1 )
    => /\ last.res.ctxt_final_rep.ndim = 3
       /\ Shape(last.res.ctxt_final_rep) = <<Len(ScoredCands.data), 1, Dim>>

\* the last operation encoded candidate tokens through the module
CandCall ==
    /\ last.op = "forward"
    /\ ~IsNone(last.args.cand_tokens)
    /\ last.res.kind = "encoded"

\* C6: candidate i of example b is row (b-1)*cands + i (counting from 1) of
\* the flattened view, and entry [b][i] of the candidate representation is
\* the encoding of that candidate.
C6_CandReshapeRoundTrip ==
    CandCall =>
      LET cands == Val(last.args.cand_tokens)
          bsz == Len(cands)
          n == Len(cands[1])
          flat == view2(Storage3(cands), bsz * n)
          rep == Val(last.res.cand_embed)
      IN  /\ Len(flat) = bsz * n
          /\ Shape(rep) = <<bsz, n, Dim>>
          /\ \A b \in 1..bsz : \A i \in 1..n :
                /\ flat[(b - 1) * n + i] = cands[b][i]
                /\ rep.data[b][i] = CandVec(cands[b][i])

C6_Witness ==
    /\ CandCall
    /\ LET cands == Val(last.args.cand_tokens)
       IN  /\ Len(cands) = 2
           /\ Len(cands[1]) = 2
           /\ cands[1][2] # cands[2][1]
           /\ Val(last.res.cand_embed).data[1][2] # Val(last.res.cand_embed).data[2][1]

\* score_candidates ran with cached candidate encodings
CachedScoring ==
    /\ last.op = "score_candidates"
    /\ ~IsNone(last.cand_encs)
    /\ ~IsNone(last.cand_rep)

\* C7: with cand_encs given, batch size 1 scores the cached representation
\* itself; a larger batch scores one row per context example, each equal
\* to the cached representation.
C7_CachedBroadcast ==
    CachedScoring =>
      LET bsz == Len(last.text_vec)
          cand_encs == Val(last.cand_encs)
          cand_rep == Val(last.cand_rep)
      IN  IF bsz = 1 THEN cand_rep = cand_encs
          ELSE /\ cand_rep.ndim = 3
               /\ Len(cand_rep.data) = bsz
               /\ \A b \in 1..bsz : cand_rep.data[b] = cand_encs.data[1]

C7_Witness ==
    /\ CachedScoring
    /\ Len(last.text_vec) = MaxBsz
    /\ Len(Val(last.cand_rep).data) = MaxBsz
    /\ Len(Val(last.cand_encs).data) = 1
    /\ size1(Val(last.cand_encs).data) = MaxCands
    /\ last.res.kind = "scores"

\* the module was called without context tokens, image features and
\* candidate tokens
NoEncodeInput ==
    /\ last.op = "forward"
    /\ IsNone(last.args.ctxt_tokens)
    /\ IsNone(last.args.ctxt_image)
    /\ IsNone(last.args.cand_tokens)

\* C8: a call without context tokens, image features and candidate tokens
\* never returns an encode result; unless it is a complete score call it
\* raises 'Unsupported operation'.
C8_NoInputRaises ==
    NoEncodeInput =>
      /\ last.res.kind # "encoded"
      /\ ( IsNone(last.args.ctxt_rep) \/ IsNone(last.args.ctxt_rep_mask)
             \/ IsNone(last.args.cand_rep) )
           => last.res = Error("Unsupported operation")

C8_Witness ==
    /\ NoEncodeInput
    /\ IsNone(last.args.ctxt_rep)
    /\ IsNone(last.args.ctxt_rep_mask)
    /\ IsNone(last.args.cand_rep)
    /\ last.res.kind = "error"

\* C9: construction never succeeds with an unsupported attention kind for
\* the code-reduction attention or the final-scorer attention.
C9_ConstructionRejectsUnsupported ==
    model.status = "ok" =>
      /\ model.attention_type \in SupportedAttention
      /\ model.codes_attention_type \in SupportedAttention

\* C10: load_state_dict back-fills 'codes' with the in-memory code bank when
\* the mode is 'codes' and the entry is missing, leaves a present entry
\* alone, and passes the state on as given when the mode is 'n_first'.
C10_CodesBackfill ==
    last.op = "load_state_dict" =>
      /\ (model.type = "codes" /\ "codes" \notin DOMAIN last.given) =>
            /\ DOMAIN last.passed = DOMAIN last.given \cup {"codes"}
            /\ last.passed["codes"] = Val(last.codes_before)
            /\ \A k \in DOMAIN last.given : last.passed[k] = last.given[k]
      /\ "codes" \in DOMAIN last.given => last.passed = last.given
      /\ model.type = "n_first" => last.passed = last.given

C10_Witness ==
    /\ last.op = "load_state_dict"
    /\ model.type = "codes"
    /\ "codes" \notin DOMAIN last.given
    /\ "codes" \in DOMAIN last.passed
    /\ last.passed["codes"] = CkptCodes(model.n_codes)

\* C15: encode passes image features to the context encoder only when the
\* module was built with image features; without them the context encoder
\* is called with the context tokens alone.
C15_ImageOnlyWhenEnabled ==
    CtxEncoded => (last.res.image_features_passed <=> model.use_image_features)

\* ------------------------------------------- end-to-end scenario (n_first)
\* 'n_first' modules with four codes
E2EOpts ==
        [polyencoder_type : {"n_first"},
         poly_n_codes : {4},
         poly_attention_type : AttentionKinds,
         codes_attention_type : AttentionKinds,
         polyencoder_image_encoder_num_layers : {0},
         polyencoder_image_combination_mode : {"postpend"}]
        \cup
        [polyencoder_type : {"n_first"},
         poly_n_codes : {4},
         poly_attention_type : {"basic"},
         codes_attention_type : {"basic"},
         polyencoder_image_encoder_num_layers : {1},
         polyencoder_image_combination_mode : CombinationModes]

ConstructE2E ==
    /\ model.status = "none"
    /\ \E opt \in E2EOpts :
          /\ model' = PolyEncoderModule_init(opt)
          /\ last' = [op |-> "init", opt |-> opt]

\* the module encodes a batch of two contexts, five positions each
ForwardE2E ==
    /\ model.status = "ok"
    /\ last.op = "idle"
    /\ \E t \in PaddedBatches(2, 5), i \in Opt(ImageListsFor(2)) :
          last' = [op |-> "forward",
                   args |-> Call(Some(t), i, None, None, None, None),
                   res |-> forward(model, Some(t), i, None, None, None, None)]
    /\ UNCHANGED model

NextE2E ==
    \/ ConstructE2E
    \/ ForwardE2E
    \/ Release

SpecE2E == Init /\ [][NextE2E]_vars

\* the last call encoded two contexts of five tokens each, none of them
\* padding, without image features
E2ECase ==
    /\ CtxEncoded
    /\ model.type = "n_first"
    /\ model.n_codes = 4
    /\ IsNone(last.args.ctxt_image)
    /\ LET t == Val(last.args.ctxt_tokens)
       IN  /\ Len(t) = 2
           /\ \A b \in 1..2 : Len(t[b]) = 5 /\ \A j \in 1..5 : t[b][j] # NULL_IDX

\* C13: 'n_first' with batch size 2, context length 5 and n_codes = 4 gives
\* a (2, 4, dim) representation made of the first four encoded positions
\* and an all-ones mask.
C13_EndToEndNFirst ==
    E2ECase =>
      /\ Shape(LastRep) = <<2, 4, Dim>>
      /\ Shape2(LastMask) = <<2, 4>>
      /\ \A b \in 1..2 :
            /\ Len(LastRep.data[b]) = 4
            /\ Len(LastMask[b]) = 4
            /\ \A j \in 1..4 :
                  /\ LastRep.data[b][j] = LastEnc.out[b][j]
                  /\ LastRep.data[b][j] = TokenVec(Val(last.args.ctxt_tokens)[b][j], j)
                  /\ LastMask[b][j] = 1

C13_Witness ==
    /\ E2ECase
    /\ size1(LastEnc.out) = 5
    /\ LastRep.data[2][4] = TokenVec(1, 4)
    /\ LastMask[2][4] = 1

\* ----------------------------------------------- NewContextWithImageEncoder
\* 'concat' stands for any value outside the three combination modes
ImageModes == CombinationModes \cup {"concat"}

\* image feature dimensions: the embedding size and a different one
ImgDims == {Dim, Dim + 1}

Linear(in_features, out_features) ==
    [kind |-> "Linear", in_features |-> in_features, out_features |-> out_features]

ReLU == [kind |-> "ReLU", in_features |-> 0, out_features |-> 0]

Dropout == [kind |-> "Dropout", in_features |-> 0, out_features |-> 0]

\* the loop of _build_image_encoder: k more (ReLU, Dropout, Linear) groups
RECURSIVE more_image_layers(_, _, _)
more_image_layers(k, img_dim, embedding_size) ==
    IF k <= 0 THEN <<>>
    ELSE <<ReLU, Dropout, Linear(img_dim, embedding_size)>>
         \o more_image_layers(k - 1, img_dim, embedding_size)

\* NewContextWithImageEncoder._build_image_encoder
build_image_encoder(n_img_layers, img_dim, embedding_size) ==
    <<Linear(img_dim, embedding_size)>>
    \o more_image_layers(n_img_layers - 1, img_dim, embedding_size)

NoEncoder ==
    [status |-> "none", n_img_layers |-> 0, img_dim |-> 0, embedding_size |-> 0,
     image_combination_mode |-> "", image_encoder |-> <<>>]

\* NewContextWithImageEncoder.__init__
NewContextWithImageEncoder_init(n_layers, features_dim, combination_mode) ==
    [status |-> "ok",
     n_img_layers |-> n_layers,
     img_dim |-> features_dim,
     embedding_size |-> Dim,
     image_combination_mode |-> combination_mode,
     image_encoder |-> build_image_encoder(n_layers, features_dim, Dim)]

RECURSIVE VecSum(_, _)
VecSum(x, j) == IF j = 0 THEN 0 ELSE x[j] + VecSum(x, j - 1)

\* one layer of the image encoder applied to a vector; a Linear layer
\* rejects a vector that has not its input size
layer_forward(layer, x) ==
    IF layer.kind = "Linear"
    THEN IF Len(x) # layer.in_features THEN None
         ELSE Some([k \in 1..layer.out_features |-> VecSum(x, Len(x)) + k])
    ELSE IF layer.kind = "ReLU"
    THEN Some([k \in 1..Len(x) |-> IF x[k] < 0 THEN 0 ELSE x[k]])
    ELSE Some(x)

\* nn.Sequential: layers i.. applied in order; None when a layer raises
RECURSIVE Sequential_forward(_, _, _)
Sequential_forward(layers, x, i) ==
    IF i > Len(layers) THEN Some(x)
    ELSE LET y == layer_forward(layers[i], x)
         IN  IF IsNone(y) THEN None
             ELSE Sequential_forward(layers, Val(y), i + 1)

\* the feature vector of image img
ImageFeatures(enc, img) == [k \in 1..enc.img_dim |-> img]

NoImages == [kind |-> "ok", image_encoded |-> None, image_masks |-> None]

\* NewContextWithImageEncoder.encode_images
encode_images(enc, images) ==
    LET valid_inds == {i \in 1..Len(images) : images[i] # NoImage}
        valid_img_enc == [i \in 1..Len(images) |->
            IF i \in valid_inds
            THEN Sequential_forward(enc.image_encoder,
                                    ImageFeatures(enc, images[i]), 1)
            ELSE Some(ZeroVec)]
    IN  IF valid_inds = {} THEN NoImages
        ELSE IF \E i \in valid_inds : IsNone(valid_img_enc[i])
        THEN Error("RuntimeError: size mismatch")
        ELSE [kind |-> "ok",
              image_encoded |-> Some([i \in 1..Len(images) |->
                                        <<Val(valid_img_enc[i])>>]),
              image_masks |-> Some([i \in 1..Len(images) |->
                                      <<IF i \in valid_inds THEN 1 ELSE 0>>])]

\* NewContextWithImageEncoder.add of a context encoding and an image
\* encoding (broadcast along the sequence axis), each possibly None
add(context_encoded, image_encoded) ==
    IF IsNone(image_encoded) THEN Val(context_encoded)
    ELSE IF IsNone(context_encoded) THEN Val(image_encoded)
    ELSE LET c == Val(context_encoded)
             i == Val(image_encoded)
         IN  [b \in 1..Len(c) |-> [j \in 1..Len(c[b]) |->
                 [k \in 1..Dim |-> c[b][j][k] + i[b][1][k]]]]

\* NewContextWithImageEncoder.cat of two tensors, each possibly None
cat(first, second) ==
    IF IsNone(second) THEN Val(first)
    ELSE IF IsNone(first) THEN Val(second)
    ELSE cat1(Val(first), Val(second))

\* NewContextWithImageEncoder.forward; debugger is what the pdb session
\* opened by pdb.set_trace() does: "continue" resumes, "quit" raises BdbQuit
NewContextWithImageEncoder_forward(enc, src_tokens, image_features, debugger) ==
    LET ctx == TransformerEncoder_forward(Val(src_tokens))
        context_encoded == IF IsNone(src_tokens) THEN None ELSE Some(ctx.out)
        context_mask == IF IsNone(src_tokens) THEN None ELSE Some(ctx.mask)
        img == IF IsNone(image_features) THEN NoImages
               ELSE encode_images(enc, Val(image_features))
        mode == enc.image_combination_mode
    IN  IF img.kind = "error" THEN img
        ELSE IF IsNone(context_encoded) /\ IsNone(img.image_encoded)
        THEN Error("RuntimeError: no input")
        ELSE IF mode = "add"
        THEN IF debugger = "quit" THEN Error("BdbQuit")
             ELSE [kind |-> "ok",
                   full_enc |-> add(context_encoded, img.image_encoded),
                   full_mask |-> context_mask]
        ELSE IF mode = "postpend"
        THEN [kind |-> "ok",
              full_enc |-> cat(context_encoded, img.image_encoded),
              full_mask |-> Some(cat(context_mask, img.image_masks))]
        ELSE IF mode = "prepend"
        THEN IF debugger = "quit" THEN Error("BdbQuit")
             ELSE [kind |-> "ok",
                   full_enc |-> cat(img.image_encoded, context_encoded),
                   full_mask |-> Some(cat(img.image_masks, context_mask))]
        ELSE Error("ValueError")

\* the calls of the image encoder: tokens with an image list of the batch's
\* length, or an image list alone, or nothing
ImageForwardCalls ==
    {<<Some(t), i>> : <<t, i>> \in
        {<<t, i>> \in CtxTokens \X Opt(ImageLists) :
            IsNone(i) \/ Len(Val(i)) = Len(t)}}
    \cup {<<None, i>> : i \in Opt(ImageLists)}

InitImage ==
    /\ model = NoEncoder
    /\ last = Idle

ConstructImageEncoder ==
    /\ model.status = "none"
    /\ \E n \in 1..MaxImgLayers, d \in ImgDims, mode \in ImageModes :
          /\ model' = NewContextWithImageEncoder_init(n, d, mode)
          /\ last' = [op |-> "image_init"]

ImageForward ==
    /\ model.status = "ok"
    /\ last.op = "idle"
    /\ \E c \in ImageForwardCalls, debugger \in {"continue", "quit"} :
          last' = [op |-> "image_forward",
                   args |-> [src_tokens |-> c[1], image_features |-> c[2],
                             debugger |-> debugger],
                   res |-> NewContextWithImageEncoder_forward(model, c[1], c[2],
                                                              debugger)]
    /\ UNCHANGED model

NextImage ==
    \/ ConstructImageEncoder
    \/ ImageForward
    \/ Release

SpecImage == InitImage /\ [][NextImage]_vars

\* the image encoder fused a token context with image features that are
\* absent for every example, under one of the three combination modes
AbsentImageCase ==
    /\ last.op = "image_forward"
    /\ ~IsNone(last.args.src_tokens)
    /\ \/ IsNone(last.args.image_features)
       \/ \A i \in 1..Len(Val(last.args.image_features)) :
             Val(last.args.image_features)[i] = NoImage
    /\ model.image_combination_mode \in CombinationModes

\* C11: for 'add', 'postpend' and 'prepend', fusing a token context with
\* image features absent for every example returns the token encoder's
\* representation and mask themselves, with the same sequence length: the
\* result of no image fusion at all.
C11_AbsentImageIsPureContext ==
    AbsentImageCase =>
      LET pure == TransformerEncoder_forward(Val(last.args.src_tokens))
      IN  /\ last.res.kind = "ok"
          /\ last.res.full_enc = pure.out
          /\ last.res.full_mask = Some(pure.mask)
          /\ size1(last.res.full_enc) = size1(Val(last.args.src_tokens))

\* C12: no image-fusion encoder with an unrecognized combination mode is
\* ever constructed.
C12_ConstructionRejectsUnknownMode ==
    model.status = "ok" => model.image_combination_mode \in CombinationModes

\* the Linear layers of a layer list, in order
LinearLayers(layers) ==
    SelectSeq(layers, LAMBDA layer : layer.kind = "Linear")

\* C14: the image feed-forward network is dimensionally consistent: its
\* first Linear layer takes the image feature dimension, every later one
\* takes the output dimension of the one before, the last one returns the
\* embedding dimension.
C14_ImageEncoderConsistent ==
    model.status = "ok" =>
      LET lin == LinearLayers(model.image_encoder)
      IN  /\ Len(lin) = model.n_img_layers
          /\ lin[1].in_features = model.img_dim
          /\ \A i \in 1..(Len(lin) - 1) :
                lin[i + 1].in_features = lin[i].out_features
          /\ lin[Len(lin)].out_features = model.embedding_size

=============================================================================
